---- MODULE Spec2Model ----
(***************************************************************************)
(* Model of the ES2015 arrow-function lowering pass                         *)
(* (ecmascript/transforms/src/compat/es2015/arrow/mod.rs).                  *)
(*                                                                         *)
(* AST nodes are records tagged by "kind".  Rust enum wrappers             *)
(* (BlockStmtOrExpr, ExprOrSuper, Stmt, Pat, Box) are transparent: the     *)
(* variant is recognised by the kind of the wrapped node.  Option<T> is    *)
(* either the node or the record None.                                     *)
(***************************************************************************)
EXTENDS Integers, Sequences, FiniteSets, TLC

\* swc_common::DUMMY_SP, the sentinel span of synthetic nodes
DUMMY_SP == 0

None == [kind |-> "None"]

----------------------------------------------------------------------------
(* AST node shapes *)

ThisExpr(span) == [kind |-> "This", span |-> span]

Ident(span, sym) == [kind |-> "Ident", span |-> span, sym |-> sym]

ArrowExpr(span, params, body, is_async, is_generator) ==
    [kind |-> "Arrow", span |-> span, params |-> params, body |-> body,
     is_async |-> is_async, is_generator |-> is_generator]

Function(span, params, body, is_async, is_generator) ==
    [kind |-> "Function", span |-> span, params |-> params, body |-> body,
     is_async |-> is_async, is_generator |-> is_generator]

FnExpr(ident, function) == [kind |-> "Fn", ident |-> ident, function |-> function]

FnDecl(ident, function) == [kind |-> "FnDecl", ident |-> ident, function |-> function]

BlockStmt(span, stmts) == [kind |-> "Block", span |-> span, stmts |-> stmts]

ReturnStmt(span, arg) == [kind |-> "Return", span |-> span, arg |-> arg]

ExprStmt(span, expr) == [kind |-> "ExprStmt", span |-> span, expr |-> expr]

CallExpr(span, callee, args) ==
    [kind |-> "Call", span |-> span, callee |-> callee, args |-> args]

MemberExpr(span, obj, prop, computed) ==
    [kind |-> "Member", span |-> span, obj |-> obj, prop |-> prop, computed |-> computed]

ExprOrSpread(expr) == [kind |-> "ExprOrSpread", spread |-> None, expr |-> expr]

AssignPat(span, left, right) ==
    [kind |-> "AssignPat", span |-> span, left |-> left, right |-> right]

ObjectLit(span, props) == [kind |-> "Object", span |-> span, props |-> props]

\* object-literal method: a property carrying a Function payload directly
MethodProp(key, function) == [kind |-> "Method", key |-> key, function |-> function]

\* the variants of enum Expr among the node kinds
ExprKinds == {"This", "Ident", "Arrow", "Fn", "Call", "Member", "Object"}

IsExpr(n) == n.kind \in ExprKinds

\* ExprFactory::as_callee: ExprOrSuper::Expr(box self)
as_callee(e) == e

\* ExprFactory::as_arg: ExprOrSpread { spread: None, expr: box self }
as_arg(e) == ExprOrSpread(e)

\* quote_ident!(sym): an identifier expression with the dummy span
quote_ident(sym) == Ident(DUMMY_SP, sym)

----------------------------------------------------------------------------
(* Generic traversal: the derived FoldWith / VisitWith walk every child *)

Children(n) ==
    CASE n.kind \in {"Arrow", "Function"} -> n.params \o <<n.body>>
      [] n.kind \in {"Fn", "FnDecl", "Method"} -> <<n.function>>
      [] n.kind = "Block" -> n.stmts
      [] n.kind = "Return" -> IF n.arg.kind = "None" THEN <<>> ELSE <<n.arg>>
      [] n.kind \in {"ExprStmt", "ExprOrSpread"} -> <<n.expr>>
      [] n.kind = "Call" -> <<n.callee>> \o n.args
      [] n.kind = "Member" -> <<n.obj, n.prop>>
      [] n.kind = "Object" -> n.props
      [] n.kind = "AssignPat" -> <<n.left, n.right>>
      [] OTHER -> <<>>

\* the node n with its children replaced, in order, by cs
WithChildren(n, cs) ==
    CASE n.kind \in {"Arrow", "Function"} ->
            [n EXCEPT !.params = SubSeq(cs, 1, Len(cs) - 1), !.body = cs[Len(cs)]]
      [] n.kind \in {"Fn", "FnDecl", "Method"} -> [n EXCEPT !.function = cs[1]]
      [] n.kind = "Block" -> [n EXCEPT !.stmts = cs]
      [] n.kind = "Return" -> IF n.arg.kind = "None" THEN n ELSE [n EXCEPT !.arg = cs[1]]
      [] n.kind \in {"ExprStmt", "ExprOrSpread"} -> [n EXCEPT !.expr = cs[1]]
      [] n.kind = "Call" -> [n EXCEPT !.callee = cs[1], !.args = Tail(cs)]
      [] n.kind = "Member" -> [n EXCEPT !.obj = cs[1], !.prop = cs[2]]
      [] n.kind = "Object" -> [n EXCEPT !.props = cs]
      [] n.kind = "AssignPat" -> [n EXCEPT !.left = cs[1], !.right = cs[2]]
      [] OTHER -> n

----------------------------------------------------------------------------
(* ThisProbe *)

\* variant: the Visit<FnDecl> override is missing
StopListFnOnly == {"Fn"}

\* node kinds the Visitor overrides with an empty visit ("Don't recurse into fn")
StopList == {"Fn", "FnDecl"}

RECURSIVE VisitWith(_)
VisitWith(n) ==
    CASE n.kind = "This" -> TRUE
      [] n.kind \in StopList -> FALSE
      [] OTHER -> \E i \in 1..Len(Children(n)) : VisitWith(Children(n)[i])

contains_this_expr(body) == VisitWith(body)

----------------------------------------------------------------------------
(* ArrowLowerer *)

\* variant: the expression is wrapped in a statement but not returned
fn_body_no_return(body) ==
    IF body.kind = "Block"
    THEN body
    ELSE BlockStmt(DUMMY_SP, <<ExprStmt(DUMMY_SP, body)>>)

\* the body of the synthesized Function
fn_body(body) ==
    IF body.kind = "Block"
    THEN body
    ELSE BlockStmt(DUMMY_SP, <<ReturnStmt(DUMMY_SP, body)>>)

\* variant: is_async is not carried over
fn_expr_sync(e) ==
    FnExpr(None, Function(e.span, e.params, fn_body(e.body), FALSE, e.is_generator))

fn_expr(e) ==
    FnExpr(None, Function(e.span, e.params, fn_body(e.body), e.is_async, e.is_generator))

\* variant: the ThisExpr argument takes the arrow's span
bind_call_this_span(span, f) ==
    CallExpr(span,
             as_callee(MemberExpr(span, f, quote_ident("bind"), FALSE)),
             <<as_arg(ThisExpr(span))>>)

bind_call(span, f) ==
    CallExpr(span,
             as_callee(MemberExpr(span, f, quote_ident("bind"), FALSE)),
             <<as_arg(ThisExpr(DUMMY_SP))>>)

\* variant: async arrows are left to another pass
FoldArrowSkipAsync(e) ==
    IF e.is_async
    THEN e
    ELSE IF ~contains_this_expr(e.body) THEN fn_expr(e) ELSE bind_call(e.span, fn_expr(e))

\* the Expr::Arrow arm of the match
FoldArrow(e) ==
    LET used_this == contains_this_expr(e.body)
    IN  IF ~used_this THEN fn_expr(e) ELSE bind_call(e.span, fn_expr(e))

RECURSIVE Fold(_), FoldAny(_), FoldChildren(_)

\* variant: pre-order, an arrow is rewritten before (instead of after) its
\* children are folded
FoldPreOrder(e0) ==
    IF e0.kind = "Arrow" THEN FoldArrow(e0) ELSE FoldChildren(e0)

\* variant: the fall-through arm returns the expression as it came in
FoldKeep(e0) ==
    LET e == FoldChildren(e0)
    IN  IF e.kind = "Arrow" THEN FoldArrow(e) ELSE e0

\* fold_children: every child is folded, the node itself is kept
FoldChildren(n) ==
    LET cs == Children(n)
    IN  WithChildren(n, [i \in 1..Len(cs) |-> FoldAny(cs[i])])

\* Fold<Expr> for Arrow
Fold(e0) ==
    LET e == FoldChildren(e0)
    IN  IF e.kind = "Arrow" THEN FoldArrow(e) ELSE e

\* the pass lifted over every node type: Fold<Expr> applies to expressions,
\* every other node folds its children
FoldAny(n) == IF IsExpr(n) THEN Fold(n) ELSE FoldChildren(n)

----------------------------------------------------------------------------
(* Input trees *)

MaxDepth == 3

\* (span, is_async, is_generator) of the generated expression-bodied arrows
ArrowAttrs == {<<1, FALSE, FALSE>>, <<2, TRUE, FALSE>>, <<1, FALSE, TRUE>>, <<2, TRUE, TRUE>>}

RetFunction(e) == Function(3, <<>>, BlockStmt(4, <<ReturnStmt(4, e)>>), FALSE, FALSE)

Leaves ==
    { ThisExpr(3),
      Ident(3, "x"),
      ArrowExpr(1, <<>>, BlockStmt(4, <<>>), FALSE, FALSE) }

\* the ways a generated tree is put under a new node
Wrappers ==
    { <<"arrow", a>> : a \in ArrowAttrs }
    \cup
    { <<w, <<3, FALSE, FALSE>>>> :
          w \in {"block-arrow", "param-arrow", "fn", "call", "method"} }

Wrap(w, e) ==
    CASE w[1] = "arrow" ->
            ArrowExpr(w[2][1], <<Ident(3, "x")>>, e, w[2][2], w[2][3])
      [] w[1] = "block-arrow" ->
            ArrowExpr(2, <<>>,
                      BlockStmt(4, <<FnDecl(Ident(3, "g"), RetFunction(ThisExpr(3))),
                                     ExprStmt(4, e)>>),
                      FALSE, FALSE)
      [] w[1] = "param-arrow" ->
            ArrowExpr(2, <<Ident(3, "x"), AssignPat(3, Ident(3, "y"), e)>>, Ident(3, "x"), FALSE, FALSE)
      [] w[1] = "fn" -> FnExpr(None, RetFunction(e))
      [] w[1] = "call" -> CallExpr(3, Ident(3, "f"), <<ExprOrSpread(e)>>)
      [] w[1] = "method" -> ObjectLit(3, <<MethodProp("m", RetFunction(e))>>)

RECURSIVE Exprs(_)
Exprs(d) ==
    IF d = 0 THEN Leaves
    ELSE Leaves \cup { Wrap(w, e) : w \in Wrappers, e \in Exprs(d - 1) }

InputTrees == Exprs(MaxDepth)

----------------------------------------------------------------------------
(* The pass as a state machine: the driver runs it once, and may run it    *)
(* again on its own output.                                                 *)

VARIABLES T, out, out2, pc

vars == <<T, out, out2, pc>>

Init ==
    /\ T \in InputTrees
    /\ out = None
    /\ out2 = None
    /\ pc = "input"

Lower ==
    /\ pc = "input"
    /\ out' = Fold(T)
    /\ pc' = "lowered"
    /\ UNCHANGED <<T, out2>>

LowerAgain ==
    /\ pc = "lowered"
    /\ out2' = Fold(out)
    /\ pc' = "relowered"
    /\ UNCHANGED <<T, out>>

Next == Lower \/ LowerAgain

Spec == Init /\ [][Next]_vars

----------------------------------------------------------------------------
(* Vocabulary of the properties: positions in a tree, independent of the   *)
(* traversals above.                                                        *)

RECURSIVE Paths(_)
Paths(n) ==
    {<<>>} \cup
    UNION { { <<i>> \o p : p \in Paths(Children(n)[i]) } : i \in 1..Len(Children(n)) }

RECURSIVE NodeAt(_, _)
NodeAt(n, p) == IF p = <<>> THEN n ELSE NodeAt(Children(n)[Head(p)], Tail(p))

\* the positions of the ThisExpr nodes of n
RECURSIVE ThisPaths(_)
ThisPaths(n) ==
    IF n.kind = "This" THEN {<<>>}
    ELSE UNION { { <<i>> \o p : p \in ThisPaths(Children(n)[i]) } : i \in 1..Len(Children(n)) }

\* the nodes of n, parents before children
RECURSIVE NodeSeq(_), NodeSeqs(_)
NodeSeq(n) == <<n>> \o NodeSeqs(Children(n))
NodeSeqs(cs) == IF cs = <<>> THEN <<>> ELSE NodeSeq(Head(cs)) \o NodeSeqs(Tail(cs))

Subtrees(n) == { NodeAt(n, p) : p \in Paths(n) }

\* the node m is n or lies somewhere under n
RECURSIVE Occurs(_, _)
Occurs(m, n) == (m.kind = n.kind /\ m = n) \/ \E i \in 1..Len(Children(n)) : Occurs(m, Children(n)[i])

\* the arrow nodes of the tree n
RECURSIVE Arrows(_)
Arrows(n) ==
    (IF n.kind = "Arrow" THEN {n} ELSE {}) \cup
    UNION { Arrows(Children(n)[i]) : i \in 1..Len(Children(n)) }

RECURSIVE HasArrow(_)
HasArrow(n) == n.kind = "Arrow" \/ \E i \in 1..Len(Children(n)) : HasArrow(Children(n)[i])

\* n holds a ThisExpr with no node of a kind in stop on the way down to it
\* (n itself included)
FreeThis(n, stop) ==
    \E p \in ThisPaths(n) :
        \A k \in 0..Len(p) : NodeAt(n, SubSeq(p, 1, k)).kind \notin stop

\* every node kind that carries a Function payload
FunctionCarriers == {"Fn", "FnDecl", "Method"}

IsBind(r) ==
    /\ r.kind = "Call"
    /\ r.callee.kind = "Member"
    /\ r.callee.obj.kind = "Fn"
    /\ r.callee.prop.kind = "Ident"
    /\ r.callee.prop.sym = "bind"
    /\ ~r.callee.computed
    /\ Len(r.args) = 1
    /\ r.args[1].kind = "ExprOrSpread"
    /\ r.args[1].expr.kind = "This"

IsBare(r) == r.kind = "Fn"

\* the FnExpr synthesized for an arrow, inside its replacement r
FnOf(r) == IF r.kind = "Fn" THEN r ELSE r.callee.obj

\* the pass has run once, and not yet again
Lowered == pc = "lowered"

----------------------------------------------------------------------------
\* C1 (Elimination): whatever the input tree, with arrows nested in arrow
\* bodies, arrow parameters, function bodies, call arguments and blocks, the
\* tree returned by the fold holds no ArrowExpr node.
Elimination == Lowered => ~HasArrow(out)

ElimWitness ==
    /\ pc = "lowered"
    /\ \E a \in Arrows(T) :
          /\ \E i \in 1..Len(a.params) : HasArrow(a.params[i])
          /\ \E c \in Subtrees(a) : c.kind \in {"Function", "ExprOrSpread", "Block"} /\ HasArrow(c)

----------------------------------------------------------------------------
----------------------------------------------------------------------------
----------------------------------------------------------------------------
\* C4 (Flag preservation): the Function synthesized for an arrow has the
\* arrow's is_async and is_generator, bind-wrapped or not.
FlagPreservation ==
    Lowered =>
        \A a \in Arrows(T) :
            LET r == Fold(a)
            IN  /\ Occurs(r, out)
                /\ FnOf(r).function.is_async = a.is_async
                /\ FnOf(r).function.is_generator = a.is_generator

\* a bare async arrow above a bind-wrapped generator arrow
FlagWitness ==
    /\ pc = "lowered"
    /\ \E a, b \in Arrows(T) :
          /\ a.is_async /\ ~a.is_generator /\ IsBare(Fold(a))
          /\ FnOf(Fold(a)).function.is_async
          /\ ~b.is_async /\ b.is_generator /\ IsBind(Fold(b))
          /\ FnOf(Fold(b)).function.is_generator

----------------------------------------------------------------------------
\* C5 (Idempotence): the pass applied to its own output returns that output.
Idempotence == pc = "relowered" => out2 = out

\* the first run produced a bind wrapper
IdempotenceWitness ==
    /\ pc = "relowered"
    /\ HasArrow(T)
    /\ \E n \in Subtrees(out) : IsBind(n)

----------------------------------------------------------------------------
\* C6 (Non-arrow passthrough): every node of the input that is not an arrow
\* appears in the output with its kind and own attributes, its children being
\* the lowerings of its input children; a tree without arrows is returned
\* as it is.
Passthrough ==
    Lowered =>
        /\ LET ns == NodeSeq(T)
           IN  \A k \in 1..Len(ns) :
                  LET n == ns[k]
                      m == FoldAny(n)
                      cs == Children(n)
                      ds == Children(m)
                  IN  n.kind # "Arrow" =>
                          /\ Occurs(m, out)
                          /\ m.kind = n.kind
                          /\ WithChildren(m, cs) = n
                          /\ Len(ds) = Len(cs)
                          /\ \A i \in 1..Len(cs) : ds[i] = FoldAny(cs[i])
        /\ ~HasArrow(T) => out = T

\* non-arrow nodes above and below an arrow: the call is kept, only its
\* argument changes, and the function declaration under the arrow is kept
PassthroughWitness ==
    /\ pc = "lowered"
    /\ T.kind = "Call"
    /\ out.kind = "Call"
    /\ out # T
    /\ \E a \in Arrows(T) : \E n \in Subtrees(a.body) : n.kind = "FnDecl" /\ n \in Subtrees(out)

----------------------------------------------------------------------------
\* spans of the nodes synthesized for the arrow a, in its replacement r, that
\* every reading of the span convention agrees on: the CallExpr of a wrapped
\* replacement and the Function of a bare one carry the arrow's span; the
\* `bind` identifier, the ThisExpr argument, the synthesized return block and
\* its ReturnStmt carry the dummy span
SpanCommon(a, r) ==
    /\ IsBind(r) =>
          /\ r.span = a.span
          /\ r.callee.prop.span = DUMMY_SP
          /\ r.args[1].expr.span = DUMMY_SP
    /\ IsBare(r) => r.function.span = a.span
    /\ a.body.kind # "Block" =>
          /\ FnOf(r).function.body.span = DUMMY_SP
          /\ FnOf(r).function.body.stmts[1].span = DUMMY_SP

\* C7 as stated (Span convention): under a bind wrapper only the CallExpr
\* carries the arrow's span; the MemberExpr and the Function carry the dummy
\* span like every other interior synthesized node.
SpanConventionAsStated ==
    Lowered =>
        \A a \in Arrows(T) :
            LET r == Fold(a)
            IN  /\ SpanCommon(a, r)
                /\ IsBind(r) =>
                      /\ r.callee.span = DUMMY_SP
                      /\ FnOf(r).function.span = DUMMY_SP

\* C7 amended (Span convention): the CallExpr, the MemberExpr and the
\* Function of a replacement all carry the arrow's span, wrapped or not; the
\* `bind` identifier, the ThisExpr argument, the synthesized return block and
\* its ReturnStmt carry the dummy span.
SpanConvention ==
    Lowered =>
        \A a \in Arrows(T) :
            LET r == Fold(a)
            IN  /\ Occurs(r, out)
                /\ SpanCommon(a, r)
                /\ FnOf(r).function.span = a.span
                /\ IsBind(r) => r.callee.span = a.span

\* an expression-bodied arrow of span 2 that is bind-wrapped
SpanWitness ==
    /\ pc = "lowered"
    /\ \E a \in Arrows(T) :
          /\ a.span = 2
          /\ a.body.kind # "Block"
          /\ IsBind(Fold(a))
          /\ Fold(a).callee.span = 2
          /\ Fold(a).args[1].expr.span = DUMMY_SP

----------------------------------------------------------------------------
\* C8 (Nested-arrow composition): an arrow's replacement is bind-wrapped
\* exactly when its original, un-lowered body holds a ThisExpr reachable
\* without crossing a FnExpr or FnDecl, inner arrows being transparent.
NestedComposition ==
    Lowered =>
        \A a \in Arrows(T) :
            IsBind(Fold(a)) <=> FreeThis(a.body, {"Fn", "FnDecl"})

----------------------------------------------------------------------------
\* C9 (ThisProbe contract): the probe answers true on a lowered arrow body
\* exactly when the body holds a ThisExpr that no node carrying a Function
\* payload (FnExpr, FnDecl, method) encloses, and only then is the arrow
\* bind-wrapped.
ThisProbeContract ==
    Lowered =>
        \A a \in Arrows(T) :
            LET body == FoldAny(a.body)
            IN  /\ contains_this_expr(body) <=> FreeThis(body, FunctionCarriers)
                /\ IsBind(Fold(a)) <=> FreeThis(body, FunctionCarriers)

----------------------------------------------------------------------------
\* C10 (Lexical-this over the whole arrow): an arrow with a ThisExpr in its
\* body or in its parameter list, outside every nested conventional
\* function, is replaced by a bind-wrapped function.
LexicalThis ==
    Lowered =>
        \A a \in Arrows(T) :
            (\E i \in 1..Len(Children(a)) : FreeThis(Children(a)[i], FunctionCarriers))
                => IsBind(Fold(a))

====
